---- MODULE Spec2Model ----
(***************************************************************************)
(* A model of the Committer of green-bois-magnet (src/committer.rs).       *)
(*                                                                         *)
(* Committer::new derives the number of days and the start of the run from *)
(* the options; Committer::commit_all writes one initial commit, then for  *)
(* every later day a random number of commits spread over the work window, *)
(* and finally resets the branch head to the last commit.                  *)
(*                                                                         *)
(* A DateTime<Local> is an instant in whole seconds of absolute (UTC) time; *)
(* adding a Duration adds seconds of absolute time. date() and time() read *)
(* the local clock, which is the instant plus the UTC offset the zone has  *)
(* at that instant; the zone has at most one change of offset in the days  *)
(* of a run.                                                               *)
(***************************************************************************)
EXTENDS Integers, Sequences, FiniteSets

(* ------------------------------ bounds --------------------------------- *)

\* options.yrs_ago ranges over the fractions k/YrsUnit of a year, k in
\* 0..MaxYrsAgo.
MaxYrsAgo == 8

\* The calendar day (days since the epoch) on which the program runs.
Today == 10

(* -------------------------- program constants -------------------------- *)

\* Duration::days(1) in seconds.
SecondsPerDay == 86400

\* The 365.0 of days_to_commit.
DaysPerYear == 365

\* The parent of the initial commit: generate_initial_blob takes none.
NoParent == 0

\* choices of gen_rand_num_commits; every weight is positive, so every
\* choice can be drawn.
choices == <<0, 1, 2, 3, 4, 5, 6, 7, 8, 9, 10, 11, 12, 13>>
weights == <<3, 4, 2, 2, 2, 1, 1, 1, 1, 2, 2, 2, 4, 3>>

(* ------------------------------- inputs -------------------------------- *)

\* options.start and options.end, seconds after midnight, start < end.
StartTimes == {0, 32400}
EndTimes == {7, 86399}
Windows == {w \in StartTimes \X EndTimes : w[1] < w[2]}

\* Local::now(): an instant of Today.
NowTimes == {30000}
Nows == {Today * SecondsPerDay + t : t \in NowTimes}

\* The unit of yrs_ago: a power of two, so that k/YrsUnit is a float (f32 or
\* f64) and 365.0 * (k/YrsUnit) is computed without rounding error.
YrsUnit == 2 ^ 10

\* (365.0 * yrs_ago).round() as i64 for yrs_ago = k/YrsUnit >= 0: the
\* product 365k/YrsUnit, exact in floating point, rounded to the nearest
\* integer, a half going away from zero.
round_days(k) == (2 * DaysPerYear * k + YrsUnit) \div (2 * YrsUnit)

\* The local zone: from the instant `at` on its UTC offset is `shift`
\* seconds, before it 0. The clocks go forward or back one hour at 02:00 of
\* the day of the run or of two days earlier, or never.
Zones ==
    {[at |-> 0, shift |-> 0]} \cup
    {[at |-> d * SecondsPerDay + 7200, shift |-> sh] :
        d \in {Today, Today - 2}, sh \in {3600, -3600}}

\* The calendar days a run can touch: those from the day before the earliest
\* start to Today.
DateRange == (Today - round_days(MaxYrsAgo) - 1)..Today

VARIABLES
    pc,              \* position of the program
    result,          \* what commit_all returned: "none" while it runs
    excluded,        \* the dates the date policy marks skip
    zone,            \* the local time zone
    now,             \* Local::now() read by Committer::new
    tree, author, message,          \* Committer fields
    days_to_commit, start_datetime, \* Committer fields
    start_hour, end_hour,           \* Committer fields
    odb,             \* repo: the object database, oid |-> commit content
    head,            \* repo: the branch head, NoParent = its pre-run value
    commit_time, blob, parent, work_duration, day,  \* locals of commit_all
    num_of_commits, i, cft_parent, cft_blob,        \* locals of commit_from_time
    log,             \* the oids returned by the successful writes, in order
    meta,            \* for each of them: the day, the draw and the i it was written at
    attempts,        \* number of calls of odb().write
    resets           \* number of calls of reset_head_to_hash

vars == <<pc, result, excluded, zone, now, tree, author, message, days_to_commit,
          start_datetime, start_hour, end_hour, odb, head, commit_time, blob,
          parent, work_duration, day, num_of_commits, i, cft_parent, cft_blob,
          log, meta, attempts, resets>>

config == <<excluded, zone, now, tree, author, message, days_to_commit,
            start_datetime, start_hour, end_hour>>

(* ------------------------------ time ----------------------------------- *)

\* The UTC offset of the local zone at instant t.
Offset(t) == IF zone.shift # 0 /\ t >= zone.at THEN zone.shift ELSE 0

\* The reading of the local clock at instant t.
LocalClock(t) == t + Offset(t)

\* DateTime::date(): the local calendar day of an instant.
Date(t) == LocalClock(t) \div SecondsPerDay

\* DateTime::time(): the local time of day of an instant.
TimeOfDay(t) == LocalClock(t) % SecondsPerDay

\* dates::should_skip_date: a pure function of the date.
should_skip_date(date) == date \in excluded

(* --------------------------- Committer::new ---------------------------- *)

\* now - (now.time() - options.start)
corrected_now(n, start) == n - (TimeOfDay(n) - start)

\* corrected_now - Duration::days(days_to_commit)
start_of_run(n, start, days) == corrected_now(n, start) - days * SecondsPerDay

(* ------------------------------ writer --------------------------------- *)

generate_initial_blob(t, a, m, time) ==
    [tree |-> t, parent |-> NoParent, author |-> a, message |-> m, time |-> time]

generate_non_initial_blob(t, p, a, m, time) ==
    [tree |-> t, parent |-> p, author |-> a, message |-> m, time |-> time]

(* --------------------------- object database --------------------------- *)

\* The oid of a content: objects are content addressed, so a content that
\* is already stored keeps its oid and a new content gets a new one.
OidOf(db, content) ==
    IF \E k \in 1..Len(db) : db[k] = content
    THEN CHOOSE k \in 1..Len(db) : db[k] = content
    ELSE Len(db) + 1

\* odb().write(Commit, blob): the database after a successful write.
OdbWrite(db, content) ==
    IF \E k \in 1..Len(db) : db[k] = content THEN db ELSE Append(db, content)

(* ------------------------- commit_from_time ---------------------------- *)

\* ((work_duration.num_seconds() as f64 / num_of_commits as f64) * (i as f64)) as i64
\* For 0 <= i < n <= 13 and 0 < w < 86400 the f64 product truncates to the
\* exact quotient.
offset_seconds(w, n, k) == (w * k) \div n

\* The offset taken off the start of the day instead of added to it.
intra_day_time_backwards(start_time, w, n, k) == start_time - offset_seconds(w, n, k)

\* start_time + Duration::seconds(offset)
intra_day_time(start_time, w, n, k) == start_time + offset_seconds(w, n, k)

(* ------------------------------ states --------------------------------- *)

Init ==
    /\ pc = "new"
    /\ result = "none"
    /\ excluded \in SUBSET DateRange
    /\ zone \in Zones
    /\ now = 0
    /\ tree = "" /\ author = "" /\ message = ""
    /\ days_to_commit = 0 /\ start_datetime = 0
    /\ start_hour = 0 /\ end_hour = 0
    /\ odb = <<>>
    /\ head = NoParent
    /\ commit_time = 0
    /\ blob = generate_initial_blob("", "", "", 0)
    /\ parent = NoParent
    /\ work_duration = 0
    /\ day = 0
    /\ num_of_commits = 0 /\ i = 0
    /\ cft_parent = NoParent
    /\ cft_blob = generate_initial_blob("", "", "", 0)
    /\ log = <<>>
    /\ meta = <<>>
    /\ attempts = 0
    /\ resets = 0

\* Committer::new(options), the repository opened and the author read.
New ==
    /\ pc = "new"
    /\ \E w \in Windows, k \in 0..MaxYrsAgo, n \in Nows :
         /\ now' = n
         /\ days_to_commit' = round_days(k)
         /\ start_datetime' = start_of_run(n, w[1], round_days(k))
         /\ start_hour' = w[1]
         /\ end_hour' = w[2]
    /\ tree' = "tree" /\ author' = "name <email>" /\ message' = "msg"
    /\ pc' = "commit_all"
    /\ UNCHANGED <<result, excluded, zone, odb, head, commit_time, blob, parent,
                   work_duration, day, num_of_commits, i, cft_parent, cft_blob,
                   log, meta, attempts, resets>>

\* The errors of get_repository, create_tree and get_author.
RepositoryErrors ==
    {"OpenError", "FindIndexError", "TreeWriteError", "SignatureRetrievalError",
     "NameRetrievalError", "EmailRetrievalError"}

\* Committer::new with the error of a failed step dropped: the Committer is
\* built all the same.
NewFailsIgnored ==
    /\ pc = "new"
    /\ \E err \in RepositoryErrors : result' = err
    /\ \E w \in Windows, k \in 0..MaxYrsAgo, n \in Nows :
         /\ now' = n
         /\ days_to_commit' = round_days(k)
         /\ start_datetime' = start_of_run(n, w[1], round_days(k))
         /\ start_hour' = w[1]
         /\ end_hour' = w[2]
    /\ tree' = "tree" /\ author' = "name <email>" /\ message' = "msg"
    /\ pc' = "commit_all"
    /\ UNCHANGED <<excluded, zone, odb, head, commit_time, blob, parent,
                   work_duration, day, num_of_commits, i, cft_parent, cft_blob,
                   log, meta, attempts, resets>>

\* Committer::new, lines 29-31: get_repository, create_tree or get_author
\* fails and new returns the error before a Committer exists.
NewFails ==
    /\ pc = "new"
    /\ \E err \in RepositoryErrors : result' = err
    /\ pc' = "returned"
    /\ UNCHANGED <<config, odb, head, commit_time, blob, parent, work_duration,
                   day, num_of_commits, i, cft_parent, cft_blob, log, meta, attempts,
                   resets>>

\* commit_all returns an error: nothing else changes.
Fail(err) ==
    /\ result' = err
    /\ pc' = "returned"

\* The initial commit with the author and the message handed to the writer
\* in each other's place.
InitialCommitSwappedArgs ==
    /\ pc = "commit_all"
    /\ commit_time' = start_datetime
    /\ \/ /\ Fail("WriterError")
          /\ UNCHANGED <<blob, parent, odb, log, meta, attempts, work_duration, day>>
       \/ /\ blob' = generate_initial_blob(tree, message, author, start_datetime)
          /\ attempts' = attempts + 1
          /\ Fail("CommitObjectError")
          /\ UNCHANGED <<parent, odb, log, meta, work_duration, day>>
       \/ LET b == generate_initial_blob(tree, message, author, start_datetime) IN
          /\ blob' = b
          /\ attempts' = attempts + 1
          /\ parent' = OidOf(odb, b)
          /\ odb' = OdbWrite(odb, b)
          /\ log' = Append(log, OidOf(odb, b))
          /\ meta' = Append(meta, [day |-> 0, n |-> 1, i |-> 0])
          /\ work_duration' = end_hour - start_hour
          /\ day' = 1
          /\ pc' = "loop"
          /\ UNCHANGED result
    /\ UNCHANGED <<config, head, num_of_commits, i, cft_parent, cft_blob, resets>>

\* commit_all, lines 53-57: the initial commit.
InitialCommit ==
    /\ pc = "commit_all"
    /\ commit_time' = start_datetime
    /\ \/ \* generate_initial_blob fails
          /\ Fail("WriterError")
          /\ UNCHANGED <<blob, parent, odb, log, meta, attempts, work_duration, day>>
       \/ \* commit_blob fails
          /\ blob' = generate_initial_blob(tree, author, message, start_datetime)
          /\ attempts' = attempts + 1
          /\ Fail("CommitObjectError")
          /\ UNCHANGED <<parent, odb, log, meta, work_duration, day>>
       \/ LET b == generate_initial_blob(tree, author, message, start_datetime) IN
          /\ blob' = b
          /\ attempts' = attempts + 1
          /\ parent' = OidOf(odb, b)
          /\ odb' = OdbWrite(odb, b)
          /\ log' = Append(log, OidOf(odb, b))
          /\ meta' = Append(meta, [day |-> 0, n |-> 1, i |-> 0])
          /\ work_duration' = end_hour - start_hour
          /\ day' = 1
          /\ pc' = "loop"
          /\ UNCHANGED result
    /\ UNCHANGED <<config, head, num_of_commits, i, cft_parent, cft_blob, resets>>

\* The range taken inclusive: 1..=self.days_to_commit.
loop_continues_inclusive(d, days) == d <= days

\* for _ in 1..self.days_to_commit: is there another day?
loop_continues(d, days) == d < days

\* The next day with the date cursor left where it was.
NextDayNoAdvance ==
    /\ pc = "loop"
    /\ loop_continues(day, days_to_commit)
    /\ commit_time' = commit_time
    /\ \E c \in 1..Len(choices) :
         /\ weights[c] > 0
         /\ num_of_commits' = choices[c]
    /\ cft_parent' = parent
    /\ cft_blob' = blob
    /\ i' = 0
    /\ pc' = "commit_from_time"
    /\ UNCHANGED <<config, result, odb, head, blob, parent, work_duration, day,
                   log, meta, attempts, resets>>

\* commit_all, lines 60-62, and commit_from_time, lines 80-82: the next day
\* starts and its number of commits is drawn.
NextDay ==
    /\ pc = "loop"
    /\ loop_continues(day, days_to_commit)
    /\ commit_time' = commit_time + SecondsPerDay
    /\ \E c \in 1..Len(choices) :
         /\ weights[c] > 0
         /\ num_of_commits' = choices[c]
    /\ cft_parent' = parent
    /\ cft_blob' = blob
    /\ i' = 0
    /\ pc' = "commit_from_time"
    /\ UNCHANGED <<config, result, odb, head, blob, parent, work_duration, day,
                   log, meta, attempts, resets>>

\* The iteration with the parent of the day's start in every commit of the
\* day: the local parent is never advanced.
CommitIterationStaleParent ==
    /\ pc = "commit_from_time"
    /\ i < num_of_commits
    /\ LET time == intra_day_time(commit_time, work_duration, num_of_commits, i) IN
       IF should_skip_date(Date(time))
       THEN /\ i' = i + 1
            /\ UNCHANGED <<pc, result, cft_parent, cft_blob, odb, log, meta, attempts>>
       ELSE \/ /\ Fail("WriterError")
               /\ UNCHANGED <<i, cft_parent, cft_blob, odb, log, meta, attempts>>
            \/ /\ cft_blob' = generate_non_initial_blob(tree, parent, author,
                                                        message, time)
               /\ attempts' = attempts + 1
               /\ Fail("CommitObjectError")
               /\ UNCHANGED <<i, cft_parent, odb, log, meta>>
            \/ LET b == generate_non_initial_blob(tree, parent, author,
                                                  message, time) IN
               /\ cft_blob' = b
               /\ attempts' = attempts + 1
               /\ cft_parent' = OidOf(odb, b)
               /\ odb' = OdbWrite(odb, b)
               /\ log' = Append(log, OidOf(odb, b))
               /\ meta' = Append(meta, [day |-> day, n |-> num_of_commits, i |-> i])
               /\ i' = i + 1
               /\ UNCHANGED <<pc, result>>
    /\ UNCHANGED <<config, head, commit_time, blob, parent, work_duration, day,
                   num_of_commits, resets>>

\* The iteration with the error of a failed write dropped: the loop goes on
\* to the next commit of the day.
CommitIterationSwallowsError ==
    /\ pc = "commit_from_time"
    /\ i < num_of_commits
    /\ LET time == intra_day_time(commit_time, work_duration, num_of_commits, i) IN
       IF should_skip_date(Date(time))
       THEN /\ i' = i + 1
            /\ UNCHANGED <<pc, result, cft_parent, cft_blob, odb, log, meta, attempts>>
       ELSE \/ /\ Fail("WriterError")
               /\ UNCHANGED <<i, cft_parent, cft_blob, odb, log, meta, attempts>>
            \/ /\ cft_blob' = generate_non_initial_blob(tree, cft_parent, author,
                                                        message, time)
               /\ attempts' = attempts + 1
               /\ i' = i + 1
               /\ UNCHANGED <<pc, result, cft_parent, odb, log, meta>>
            \/ LET b == generate_non_initial_blob(tree, cft_parent, author,
                                                  message, time) IN
               /\ cft_blob' = b
               /\ attempts' = attempts + 1
               /\ cft_parent' = OidOf(odb, b)
               /\ odb' = OdbWrite(odb, b)
               /\ log' = Append(log, OidOf(odb, b))
               /\ meta' = Append(meta, [day |-> day, n |-> num_of_commits, i |-> i])
               /\ i' = i + 1
               /\ UNCHANGED <<pc, result>>
    /\ UNCHANGED <<config, head, commit_time, blob, parent, work_duration, day,
                   num_of_commits, resets>>

\* commit_from_time, lines 85-100: one iteration of the loop over i.
CommitIteration ==
    /\ pc = "commit_from_time"
    /\ i < num_of_commits
    /\ LET time == intra_day_time(commit_time, work_duration, num_of_commits, i) IN
       IF should_skip_date(Date(time))
       THEN /\ i' = i + 1
            /\ UNCHANGED <<pc, result, cft_parent, cft_blob, odb, log, meta, attempts>>
       ELSE \/ \* generate_non_initial_blob fails
               /\ Fail("WriterError")
               /\ UNCHANGED <<i, cft_parent, cft_blob, odb, log, meta, attempts>>
            \/ \* commit_blob fails
               /\ cft_blob' = generate_non_initial_blob(tree, cft_parent, author,
                                                        message, time)
               /\ attempts' = attempts + 1
               /\ Fail("CommitObjectError")
               /\ UNCHANGED <<i, cft_parent, odb, log, meta>>
            \/ LET b == generate_non_initial_blob(tree, cft_parent, author,
                                                  message, time) IN
               /\ cft_blob' = b
               /\ attempts' = attempts + 1
               /\ cft_parent' = OidOf(odb, b)
               /\ odb' = OdbWrite(odb, b)
               /\ log' = Append(log, OidOf(odb, b))
               /\ meta' = Append(meta, [day |-> day, n |-> num_of_commits, i |-> i])
               /\ i' = i + 1
               /\ UNCHANGED <<pc, result>>
    /\ UNCHANGED <<config, head, commit_time, blob, parent, work_duration, day,
                   num_of_commits, resets>>

\* The end of a day with the returned pair dropped: parent and blob keep the
\* values they had before the day.
EndDayDropsParent ==
    /\ pc = "commit_from_time"
    /\ i >= num_of_commits
    /\ day' = day + 1
    /\ pc' = "loop"
    /\ UNCHANGED <<config, result, odb, head, commit_time, work_duration, blob,
                   parent, num_of_commits, i, cft_parent, cft_blob, log, meta, attempts,
                   resets>>

\* commit_from_time, line 102, and commit_all, lines 63-64: the day ends.
EndDay ==
    /\ pc = "commit_from_time"
    /\ i >= num_of_commits
    /\ parent' = cft_parent
    /\ blob' = cft_blob
    /\ day' = day + 1
    /\ pc' = "loop"
    /\ UNCHANGED <<config, result, odb, head, commit_time, work_duration,
                   num_of_commits, i, cft_parent, cft_blob, log, meta, attempts, resets>>

\* The reset without waiting for the end of the loop over the days.
ResetHeadEarly ==
    /\ pc = "loop"
    /\ resets' = resets + 1
    /\ \/ /\ Fail("ResetHeadError")
          /\ UNCHANGED head
       \/ /\ Fail("ResetHeadError")
          /\ head' \in {head, parent}
       \/ /\ parent \in 1..Len(odb)
          /\ head' = parent
          /\ result' = "Ok"
          /\ pc' = "returned"
    /\ UNCHANGED <<config, odb, commit_time, blob, parent, work_duration, day,
                   num_of_commits, i, cft_parent, cft_blob, log, meta, attempts>>

\* commit_all, lines 67-70, and reset_head_to_hash, lines 115-126.
\* find_object only reads, so its failure leaves the head alone.  What a
\* failed repo.reset leaves behind is decided by the repository engine and
\* not by the source: a mixed reset moves the branch head and then rewrites
\* the index, so an error can come before or after the head has moved.
\* reset_head_to_hash maps either to ResetHeadError without looking at the
\* head or restoring it; both outcomes are admitted.
ResetHead ==
    /\ pc = "loop"
    /\ ~loop_continues(day, days_to_commit)
    /\ resets' = resets + 1
    /\ \/ \* find_object fails, lines 116-119
          /\ Fail("ResetHeadError")
          /\ UNCHANGED head
       \/ \* repo.reset fails, lines 121-123
          /\ Fail("ResetHeadError")
          /\ head' \in {head, parent}
       \/ /\ parent \in 1..Len(odb)
          /\ head' = parent
          /\ result' = "Ok"
          /\ pc' = "returned"
    /\ UNCHANGED <<config, odb, commit_time, blob, parent, work_duration, day,
                   num_of_commits, i, cft_parent, cft_blob, log, meta, attempts>>

Next ==
    \/ New
    \/ NewFails
    \/ InitialCommit
    \/ NextDay
    \/ CommitIteration
    \/ EndDay
    \/ ResetHead

Spec == Init /\ [][Next]_vars

\* The program is one sequential thread that runs until it returns: a step
\* that can be taken is taken.
FairSpec == Spec /\ WF_vars(Next)

(* ----------------------------- properties ------------------------------ *)

\* The k-th commit written by the run, in write order.
Written(k) == odb[log[k]]

\* The number of calendar days the date cursor has been on.
DaysProcessed == Date(commit_time) - Date(start_datetime) + 1

Max(a, b) == IF a >= b THEN a ELSE b

\* The start_time of the call of commit_from_time that wrote the k-th commit:
\* the date cursor of its day.
DayStart(k) == start_datetime + meta[k].day * SecondsPerDay

\* C1: the commits written form one linear chain: the first has no parent,
\* every later one has as parent the oid returned by the write before it,
\* and no oid is the parent of two commits.
C1_LinearChain ==
    /\ \A k \in 1..Len(log) :
         Written(k).parent = IF k = 1 THEN NoParent ELSE log[k - 1]
    /\ Cardinality({Written(k).parent : k \in 1..Len(log)}) = Len(log)

\* A run that returned Ok after writing commits on two different later days.
C1_Witness ==
    /\ result = "Ok"
    /\ Len(log) >= 4
    /\ \E j, k \in 2..Len(log) : Date(Written(j).time) # Date(Written(k).time)

\* C2: in write order the timestamps of the commits never decrease, within
\* a day and across days.
C2_TimestampsNonDecreasing ==
    \A k \in 2..Len(log) : Written(k).time >= Written(k - 1).time

\* A day with three commits written after an earlier day with commits.
C2_Witness ==
    /\ pc = "commit_from_time"
    /\ day >= 2
    /\ i >= 3
    /\ Len(log) >= 5
    /\ Date(Written(Len(log) - 2).time) = Date(commit_time)
    /\ Date(Written(2).time) < Date(commit_time)

\* C3: no commit written, the initial one included, has a timestamp on a
\* date the date policy marks skip.
C3_NoCommitOnSkippedDate ==
    \A k \in 1..Len(log) : ~should_skip_date(Date(Written(k).time))

\* C4: the head is reset at most once, only after all days are processed
\* and every write attempted has succeeded, and once the head has moved the
\* reset has been called and the run has returned.
C4_ResetOnlyAfterAllWrites ==
    /\ resets <= 1
    /\ resets = 1 =>
         /\ pc = "returned"
         /\ result \in {"Ok", "ResetHeadError"}
         /\ attempts = Len(log)
         /\ day >= days_to_commit
    /\ head # NoParent => resets = 1

\* The head reset after three days of a run with commits.
C4_Witness ==
    /\ resets = 1
    /\ head # NoParent
    /\ days_to_commit >= 3
    /\ Len(log) >= 3

\* C5: a failed commit write makes commit_all return CommitObjectError at
\* once: the head keeps its pre-run value, the commits written before stay
\* in the object database, and after the return nothing is written or
\* attempted again.
C5_FailedWriteAborts ==
    /\ [](result = "CommitObjectError" =>
            /\ pc = "returned"
            /\ head = NoParent
            /\ resets = 0
            /\ attempts = Len(log) + 1
            /\ \A k \in 1..Len(log) : log[k] \in 1..Len(odb))
    /\ [][/\ (attempts' = attempts + 1 /\ log' = log) =>
                (result' = "CommitObjectError" /\ odb' = odb /\ head' = head)
          /\ result = "CommitObjectError" => FALSE]_vars

\* A write that failed on a later day, after commits of that day and of
\* earlier days were written.
C5_Witness ==
    /\ result = "CommitObjectError"
    /\ day >= 2
    /\ i >= 1
    /\ Len(log) >= 3
    /\ Date(Written(Len(log)).time) = Date(commit_time)

\* C6: when commit_all returns Ok the head is the last commit written, which
\* is the initial commit when no later commit was written.
C6_HeadIsLastCommit ==
    result = "Ok" =>
        /\ Len(log) >= 1
        /\ head = log[Len(log)]
        /\ odb[head] = blob

\* An Ok run whose last day drew no commit after earlier days wrote some.
C6_Witness ==
    /\ result = "Ok"
    /\ days_to_commit >= 3
    /\ num_of_commits = 0
    /\ Len(log) >= 2

\* C7: the initial commit is at the start of the window, and every later
\* commit has a time of day inside the window.
C7_TimeOfDayInWindow ==
    \A k \in 1..Len(log) :
        IF k = 1
        THEN TimeOfDay(Written(k).time) = start_hour
        ELSE /\ start_hour <= TimeOfDay(Written(k).time)
             /\ TimeOfDay(Written(k).time) <= end_hour

\* C8: a successful run processes exactly days_to_commit calendar days, and
\* every iteration of the loop has the cursor one calendar day after the
\* day before.
C8_ExactlyDaysToCommit ==
    /\ result = "Ok" => DaysProcessed = days_to_commit
    /\ pc = "commit_from_time" =>
         Date(commit_time) = Date(commit_time - SecondsPerDay) + 1

\* C9: the last day the run processes is the date of now, days_to_commit
\* days after the start date.
C9_LastDayIsToday ==
    result = "Ok" =>
        /\ Date(commit_time) = Date(now)
        /\ commit_time = start_datetime + days_to_commit * SecondsPerDay

\* C10: while commit_from_time runs for a day on an excluded date nothing is
\* written and the pair it hands back is the pair handed in.
C10_SkippedDayCarriesParent ==
    [][(pc = "commit_from_time" /\ should_skip_date(Date(commit_time))) =>
            /\ log' = log /\ odb' = odb /\ attempts' = attempts
            /\ cft_parent = parent /\ cft_blob = blob
            /\ pc' = "loop" => (parent' = parent /\ blob' = blob)]_vars

\* The number of commits written with a timestamp on date d.
CommitsOn(d) == Cardinality({k \in 1..Len(log) : Date(Written(k).time) = d})

\* The number of commits written by the call of commit_from_time of day d.
CommitsOfCall(d) == Cardinality({k \in 1..Len(log) : meta[k].day = d})

\* C11: when the head reset fails commit_all returns ResetHeadError; all
\* days have been processed by then, every commit attempted is written and
\* in the object database, and the head keeps its pre-run value.
C11_ResetFailureLeavesChain ==
    /\ (resets = 1 /\ result # "Ok") =>
         /\ result = "ResetHeadError"
         /\ pc = "returned"
         /\ head = NoParent
         /\ day >= days_to_commit
         /\ attempts = Len(log)
         /\ Len(log) >= 1
         /\ \A k \in 1..Len(log) : log[k] \in 1..Len(odb)
    /\ result = "ResetHeadError" => resets = 1

\* C12: every commit written carries the tree, the author and the message of
\* the Committer, and no step after construction changes these three.
C12_FixedTreeAuthorMessage ==
    /\ [](\A k \in 1..Len(log) :
            /\ Written(k).tree = tree
            /\ Written(k).author = author
            /\ Written(k).message = message)
    /\ [][pc # "new" =>
            (tree' = tree /\ author' = author /\ message' = message)]_vars

\* The initial commit and commits of a later day written.
C12_Witness ==
    /\ Len(log) >= 3
    /\ Written(1).parent = NoParent
    /\ Written(3).parent # NoParent
    /\ Written(3).tree = "tree"

\* C13: when a step of Committer::new fails, new returns a RepositoryError,
\* no commit has been written or attempted and the head has not moved.
C13_NewFailsBeforeAnyCommit ==
    result \in RepositoryErrors =>
        /\ pc = "returned"
        /\ odb = <<>>
        /\ log = <<>>
        /\ attempts = 0
        /\ resets = 0
        /\ head = NoParent

\* Committer::new failed on the last thing it reads, the email.
C13_Witness ==
    /\ result = "EmailRetrievalError"
    /\ pc = "returned"

\* The k-th commit follows, in the same call, the commit of the iteration
\* just before its own.
FollowsInCall(k) ==
    /\ k >= 3
    /\ meta[k - 1].day = meta[k].day
    /\ meta[k - 1].i = meta[k].i - 1

\* C14: a commit of a later day, written at iteration i of a draw of n, is
\* at the day's start plus W*i/n truncated to whole seconds; the first of the
\* day is at the start of the window; the commits of a day are in ascending
\* order and any two gaps between consecutive ones are at most a second apart.
C14_EvenSpacing ==
    /\ \A k \in 2..Len(log) :
         LET o == Written(k).time - DayStart(k) IN
         /\ meta[k].n * o <= work_duration * meta[k].i
         /\ work_duration * meta[k].i < meta[k].n * (o + 1)
         /\ meta[k].i = 0 => TimeOfDay(Written(k).time) = start_hour
         /\ FollowsInCall(k) => Written(k).time >= Written(k - 1).time
    /\ \A k, h \in 3..Len(log) :
         (FollowsInCall(k) /\ FollowsInCall(h) /\ meta[k].day = meta[h].day) =>
             (Written(k).time - Written(k - 1).time)
               - (Written(h).time - Written(h - 1).time) <= 1

\* C15: every timestamp one call of commit_from_time computes is on the date
\* of the day's start, so an iteration writes nothing exactly when that date
\* is marked skip: a day is skipped as a whole or not at all.
C15_SkipIsPerDay ==
    /\ [](pc = "commit_from_time" =>
            \A k \in 0..(num_of_commits - 1) :
                Date(intra_day_time(commit_time, work_duration,
                                    num_of_commits, k)) = Date(commit_time))
    /\ [][(pc = "commit_from_time" /\ i' = i + 1) =>
            ((log' = log) <=> should_skip_date(Date(commit_time)))]_vars

\* C16: the date of day 0 has exactly one commit, and a later day that has
\* run through has as many commits as its one draw, a number in 0..13, when
\* its date is not skipped and none when it is.
C16_CommitsPerDay ==
    /\ (pc \in {"loop", "commit_from_time"} \/ result = "Ok") =>
         CommitsOn(Date(start_datetime)) = 1
    /\ (pc = "commit_from_time" /\ i = num_of_commits) =>
         /\ num_of_commits \in 0..13
         /\ CommitsOfCall(day) =
              IF should_skip_date(Date(commit_time)) THEN 0 ELSE num_of_commits

\* C17: commits of different days are strictly apart in time; the commits
\* of a day are strictly increasing when the window has at least as many
\* seconds as the day's draw; so with a window of 13 seconds or more the
\* timestamps of the whole run are strictly increasing, hence distinct.
C17_DistinctTimestamps ==
    /\ \A k \in 2..Len(log) :
         (meta[k].day # meta[k - 1].day \/ meta[k].n <= work_duration) =>
             Written(k).time > Written(k - 1).time
    /\ work_duration >= 13 =>
         \A k \in 2..Len(log) : Written(k).time > Written(k - 1).time

\* The last of seven commits of a day written over a window of exactly 7
\* seconds, after an earlier day with commits.
C17_Witness ==
    /\ work_duration = 7
    /\ Len(log) >= 9
    /\ meta[Len(log)].n = 7
    /\ meta[Len(log)].i = 6
    /\ meta[Len(log)].day = 2
    /\ meta[Len(log) - 6].i = 0
    /\ meta[2].day = 1

\* The condition on the window is needed: without it consecutive commits
\* need not differ in time. This predicate does not hold, eight commits over
\* a window of 7 seconds have two at the same second.
C17_ShortWindowNeverShares ==
    \A k \in 2..Len(log) : Written(k).time # Written(k - 1).time

\* C18: commit_all returns in the end, after at most 1 + 13 * max(days_to_commit - 1, 0)
\* attempted commit writes and at most one head reset.
C18_Terminates ==
    /\ [](/\ attempts <= 1 + 13 * Max(days_to_commit - 1, 0)
          /\ resets <= 1)
    /\ <>(pc = "returned")

\* A run of three days returned Ok with every day drawing thirteen commits.
C18_Witness ==
    /\ result = "Ok"
    /\ days_to_commit = 3
    /\ attempts = 1 + 13 * 2
    /\ resets = 1

====
